---- MODULE Spec2Model ----
(***************************************************************************)
(* WorkDay Zen timer (App.tsx): the timer state machine, its persisted     *)
(* representation in localStorage, activity-triggered start, the midnight  *)
(* reset, and the wake-lock / notification side effects.                   *)
(*                                                                         *)
(* One action is one turn of the event loop: an event handler runs against *)
(* the closures of the last render, the component re-renders and the       *)
(* effects whose dependencies changed run.  A state update queued by an    *)
(* effect (the auto-start effect's setTimer) is the next turn, and no      *)
(* other handler runs before it (Busy).                                    *)
(*                                                                         *)
(* Times are milliseconds as in the source; the clock starts at 1 and      *)
(* advances one minute at a time, so Date.now() is never 0 (falsy).        *)
(***************************************************************************)
EXTENDS Integers, Sequences, FiniteSets

VARIABLES
    timer,                 \* useState<TimerState>: [startTime, endTime, status]
    totalDurationMs,       \* useState<number>
    autoStartEnabled,      \* useState<boolean>
    isMuted,               \* useState(false)
    notificationsEnabled,  \* useState(false)
    timeLeft,              \* useState<number>(0)
    tip,                   \* useState<ProductivityTip | null>(null), with the call that gave it
    wakeLockInNavigator,   \* 'wakeLock' in navigator: the platform has the API
    wakeLockRef,           \* wakeLockRef.current: "null", "held" or "released" sentinel
    wakePending,           \* wakeLock.request() promises not yet settled
    wakeHeld,              \* sentinels acquired and not released (platform side)
    activity,              \* the activity listeners and the startTimer closure they call
    tickInterval,          \* the tick interval and the closure values it captured
    storage,               \* localStorage: the four zen_* keys the timer uses
    permission,            \* Notification.permission: "granted", or "default" (not granted)
    visible,               \* document.visibilityState = 'visible'
    now,                   \* Date.now()
    today,                 \* the calendar day of new Date()
    sessionCompletions,    \* history: handleCompletion calls since the last startTimer
    last                   \* history: what the last handler did

vars == <<timer, totalDurationMs, autoStartEnabled, isMuted, notificationsEnabled,
          timeLeft, wakeLockRef, wakePending, wakeHeld, activity,
          tickInterval, storage, permission, visible, now, today,
          wakeLockInNavigator, sessionCompletions, last, tip>>

----------------------------------------------------------------------------
(* Bounds of the model *)

MaxClock == 2      \* the clock advances at most this many minutes
MaxDay == 2        \* calendar days 1..MaxDay
MaxBurst == 2      \* activity events delivered in one turn
MaxPending == 2    \* wake-lock requests in flight
MaxHeld == MaxPending    \* sentinels held at once

InputHours == {-1, 0}          \* values typed into the hours field
InputMinutes == {-5, 0, 1, 2}  \* values typed into the minutes field

----------------------------------------------------------------------------
(* Types and constants of the program *)

Null == -1

IDLE == "IDLE"
LISTENING == "LISTENING"
RUNNING == "RUNNING"
FINISHED == "FINISHED"

TimerStatus == {IDLE, LISTENING, RUNNING, FINISHED}

MinuteMs == 60 * 1000
HourMs == 60 * 60 * 1000
DEFAULT_DURATION_MS == 8 * 60 * 60 * 1000

EventClasses == {"mousemove", "keydown", "mousedown", "touchstart"}

\* JavaScript truthiness of a number | null
Truthy(x) == x /= Null /\ x /= 0

IdleShape == [startTime |-> Null, endTime |-> Null, status |-> IDLE]

\* No TimerState: the useState initialiser threw and App is not mounted
SyntaxError == "SyntaxError"
Unmounted == [startTime |-> Null, endTime |-> Null, status |-> SyntaxError]
FinishedShape == [startTime |-> Null, endTime |-> Null, status |-> FINISHED]

----------------------------------------------------------------------------
(* localStorage values: every stored string is a sequence, a missing key   *)
(* (getItem returning null) is the empty sequence.                         *)

NoItem == << >>

JSONstringify(t) == <<t.startTime, t.endTime, t.status>>

\* A stored value that is not JSON, and whether JSON.parse returns or throws
Garbage == <<"{">>
Parses(s) == s /= Garbage

JSONparse(s) == [startTime |-> s[1], endTime |-> s[2], status |-> s[3]]

RECURSIVE toString(_)
toString(n) == IF n < 10 THEN <<n>> ELSE Append(toString(n \div 10), n % 10)

RECURSIVE parseInt(_)
parseInt(s) ==
    IF Len(s) = 1 THEN s[1]
    ELSE 10 * parseInt(SubSeq(s, 1, Len(s) - 1)) + s[Len(s)]

BoolToString(b) == IF b THEN <<"true">> ELSE <<"false">>
toDateString(d) == <<"day", d>>

EmptyStorage ==
    [zen_timer_state |-> NoItem, zen_last_active_day |-> NoItem,
     zen_total_duration |-> NoItem, zen_auto_start |-> NoItem]

----------------------------------------------------------------------------
(* getWorkdayTip (services/geminiService.ts), in its two versions *)

MaxHours == 8      \* remainingHours: 0..MaxHours

\* process.env.API_KEY / process.env.GEMINI_API_KEY: unset, or a key
EnvValues == {"", "key"}

\* ai.models.generateContent: a response whose text is the JSON of a tip, a
\* rejection (network failure), or a response whose text is not JSON
Outcomes == {"ok", "rejected", "notJSON"}

StayFocused ==
    [title |-> "Stay Focused",
     advice |-> "Remember to take short breaks and stay hydrated throughout your journey."]
ReadyToWork ==
    [title |-> "Ready to Work?",
     advice |-> "Start your timer and stay focused on your goals today."]

\* The tip the service generates for remainingHours
ServiceTip(remainingHours) == [title |-> "tip", advice |-> <<remainingHours>>]

\* The try block: await generateContent, JSON.parse(response.text); any
\* exception is caught
Lookup(remainingHours, outcome) ==
    IF outcome = "ok" THEN ServiceTip(remainingHours) ELSE StayFocused

\* a || b on strings
Or(a, b) == IF a /= "" THEN a ELSE b

\* The version that reads API_KEY only and has no credential check.  The
\* client is constructed outside the try block; construction is taken not to
\* throw, and a lookup without a key to be rejected.
getWorkdayTipFirst(remainingHours, API_KEY, outcome) ==
    Lookup(remainingHours, IF API_KEY = "" THEN "rejected" ELSE outcome)

\* The version with the credential check
getWorkdayTip(remainingHours, API_KEY, GEMINI_API_KEY, outcome) ==
    LET apiKey == Or(Or(API_KEY, GEMINI_API_KEY), "")
    IN  IF apiKey = "" THEN ReadyToWork ELSE Lookup(remainingHours, outcome)

NoTip == [version |-> 0, remainingHours |-> Null, API_KEY |-> "",
          GEMINI_API_KEY |-> "", outcome |-> "", result |-> Null]

----------------------------------------------------------------------------
(* useState initialisers *)

InitialDurationDefault(st) == DEFAULT_DURATION_MS

InitialDuration(st) ==
    IF st.zen_total_duration /= NoItem
    THEN parseInt(st.zen_total_duration)
    ELSE DEFAULT_DURATION_MS

InitialTimerSavedFirst(st, day, t) ==
    LET saved == st.zen_timer_state
        lastDate == st.zen_last_active_day
        todayStr == toDateString(day)
    IN  IF saved /= NoItem
        THEN LET parsed == JSONparse(saved)
             IN  IF Truthy(parsed.endTime) /\ t > parsed.endTime
                 THEN [timer |-> FinishedShape, lastDay |-> lastDate]
                 ELSE [timer |-> parsed, lastDay |-> lastDate]
        ELSE [timer |-> IdleShape, lastDay |-> todayStr]

InitialTimerExpiredAtEnd(st, day, t) ==
    LET saved == st.zen_timer_state
        lastDate == st.zen_last_active_day
        todayStr == toDateString(day)
    IN  IF lastDate /= NoItem /\ lastDate /= todayStr
        THEN [timer |-> IdleShape, lastDay |-> todayStr]
        ELSE IF saved /= NoItem
        THEN LET parsed == JSONparse(saved)
             IN  IF Truthy(parsed.endTime) /\ t >= parsed.endTime
                 THEN [timer |-> FinishedShape, lastDay |-> lastDate]
                 ELSE [timer |-> parsed, lastDay |-> lastDate]
        ELSE [timer |-> IdleShape, lastDay |-> todayStr]

\* The timer initialiser: the first TimerState and the zen_last_active_day it leaves
InitialTimer(st, day, t) ==
    LET saved == st.zen_timer_state
        lastDate == st.zen_last_active_day
        todayStr == toDateString(day)
    IN  IF lastDate /= NoItem /\ lastDate /= todayStr
        THEN [timer |-> IdleShape, lastDay |-> todayStr]
        ELSE IF saved /= NoItem
        THEN IF ~Parses(saved)
             THEN [timer |-> Unmounted, lastDay |-> lastDate]
             ELSE LET parsed == JSONparse(saved)
                  IN  IF Truthy(parsed.endTime) /\ t > parsed.endTime
                      THEN [timer |-> FinishedShape, lastDay |-> lastDate]
                      ELSE [timer |-> parsed, lastDay |-> lastDate]
        ELSE [timer |-> IdleShape, lastDay |-> todayStr]

InitialAutoStart(st) ==
    IF st.zen_auto_start = NoItem THEN TRUE ELSE st.zen_auto_start = <<"true">>

----------------------------------------------------------------------------
(* Effects *)

NoHandler == [attached |-> {}, totalDurationMs |-> Null, notificationsEnabled |-> FALSE]
NoInterval == [active |-> FALSE, endTime |-> Null, isMuted |-> FALSE,
               notificationsEnabled |-> FALSE]

\* Activity detection effect: listeners are attached while LISTENING
ActivityEffect(t, dur, notif) ==
    IF t.status = LISTENING
    THEN [attached |-> EventClasses, totalDurationMs |-> dur,
          notificationsEnabled |-> notif]
    ELSE NoHandler

TickEffectWhileFinished(t, muted, notif) ==
    IF t.status \in {RUNNING, FINISHED} /\ Truthy(t.endTime)
    THEN [active |-> TRUE, endTime |-> t.endTime, isMuted |-> muted,
          notificationsEnabled |-> notif]
    ELSE NoInterval

\* Tick effect: an interval whose callback closes over this render's values
TickEffect(t, muted, notif) ==
    IF t.status = RUNNING /\ Truthy(t.endTime)
    THEN [active |-> TRUE, endTime |-> t.endTime, isMuted |-> muted,
          notificationsEnabled |-> notif]
    ELSE NoInterval

PersistStatusOnly(st, t, dur, auto) ==
    [st EXCEPT !.zen_timer_state =
                   IF st.zen_timer_state /= NoItem
                      /\ JSONparse(st.zen_timer_state).status = t.status
                   THEN st.zen_timer_state
                   ELSE JSONstringify(t),
               !.zen_total_duration = toString(dur),
               !.zen_auto_start = BoolToString(auto)]

\* The three persistence effects
Persist(st, t, dur, auto) ==
    [st EXCEPT !.zen_timer_state = JSONstringify(t),
               !.zen_total_duration = toString(dur),
               !.zen_auto_start = BoolToString(auto)]

BusyIgnoresFlag == timer.status = IDLE

\* The auto-start effect has queued setTimer(prev => LISTENING)
Busy == autoStartEnabled /\ timer.status = IDLE

StartTimerChangedNoNotification(dur1, notif1) == dur1 /= totalDurationMs
StartTimerChangedNoDuration(dur1, notif1) == notif1 /= notificationsEnabled

\* useCallback(startTimer, [notificationsEnabled, totalDurationMs]): whether
\* the next render makes a new startTimer
StartTimerChanged(dur1, notif1) ==
    dur1 /= totalDurationMs \/ notif1 /= notificationsEnabled

RenderTickOnStatusOnly(t1, dur1, auto1, muted1, notif1, act0, tick0, st0) ==
    /\ timer' = t1
    /\ totalDurationMs' = dur1
    /\ autoStartEnabled' = auto1
    /\ isMuted' = muted1
    /\ notificationsEnabled' = notif1
    /\ storage' = Persist(st0, t1, dur1, auto1)
    /\ activity' =
          IF t1.status /= timer.status \/ StartTimerChanged(dur1, notif1)
          THEN ActivityEffect(t1, dur1, notif1)
          ELSE act0
    /\ tickInterval' =
          IF t1.status /= timer.status
          THEN TickEffect(t1, muted1, notif1)
          ELSE tick0

\* Re-render with the new state, then run the effects whose dependencies
\* changed.  act0, tick0, st0: listeners, interval and storage as the handler
\* left them.
Render(t1, dur1, auto1, muted1, notif1, act0, tick0, st0) ==
    /\ timer' = t1
    /\ totalDurationMs' = dur1
    /\ autoStartEnabled' = auto1
    /\ isMuted' = muted1
    /\ notificationsEnabled' = notif1
    /\ storage' = Persist(st0, t1, dur1, auto1)
    /\ activity' =
          IF t1.status /= timer.status \/ StartTimerChanged(dur1, notif1)
          THEN ActivityEffect(t1, dur1, notif1)
          ELSE act0
    /\ tickInterval' =
          IF t1.status /= timer.status \/ t1.endTime /= timer.endTime
          THEN TickEffect(t1, muted1, notif1)
          ELSE tick0

\* History of a handler: its name, the status it ran from, its argument, the
\* side effects it dispatched, and the order in which the turn dispatched them
\* and wrote zen_timer_state
Did(op) ==
    [op |-> op, from |-> timer.status, arg |-> Null, starts |-> 0, wakeReq |-> 0,
     startAlerts |-> 0, completions |-> 0, finishAlerts |-> 0, sounds |-> 0,
     order |-> << >>]

\* setTimer gives `timer` a new object, so the timer persistence effect runs
\* after the render that follows the handler
PersistOrder == <<"setItem">>

\* requestWakeLock / releaseWakeLock as the platform sees them
RequestOrder == IF wakeLockInNavigator THEN <<"wakeLock.request">> ELSE << >>
ReleaseOrder == IF wakeLockRef /= "null" THEN <<"sentinel.release">> ELSE << >>

\* startTimer called `starts` times, then the render and its effects
RECURSIVE StartOrder(_, _)
StartOrder(starts, notif) ==
    IF starts = 0 THEN PersistOrder
    ELSE RequestOrder \o (IF notif THEN <<"Notification">> ELSE << >>)
            \o StartOrder(starts - 1, notif)

\* The finishing tick: handleCompletion, then the render and its effects
CompletionOrder(muted, notif) ==
    (IF muted THEN << >> ELSE <<"audio.play">>)
       \o (IF notif THEN <<"Notification">> ELSE << >>)
       \o ReleaseOrder \o PersistOrder

\* reset(), then the render and its effects
ResetOrder == ReleaseOrder \o PersistOrder

----------------------------------------------------------------------------
(* Values derived at each render *)

Max(a, b) == IF a >= b THEN a ELSE b
Min(a, b) == IF a <= b THEN a ELSE b

\* Math.max(0, Math.min(100, (1 - left / total) * 100)), kept exact as the
\* numerator of a fraction of `total`: the percentage is 100 * Clamped / total
Clamped(left, total) == Max(0, Min(total, total - left))

\* progress, as the progress bar shows it
progress == IF Truthy(timer.endTime) THEN Clamped(timeLeft, totalDurationMs) ELSE 0

----------------------------------------------------------------------------
(* Screen wake lock *)

\* requestWakeLock called `calls` times: requests in flight afterwards
requestWakeLock(calls) ==
    /\ wakeLockInNavigator => wakePending + calls <= MaxPending
    /\ wakePending' = IF wakeLockInNavigator THEN wakePending + calls ELSE wakePending

\* releaseWakeLock: the referenced sentinel is released and the ref cleared
releaseWakeLock ==
    /\ wakeLockRef' = "null"
    /\ wakeHeld' = IF wakeLockRef = "held" THEN wakeHeld - 1 ELSE wakeHeld

----------------------------------------------------------------------------
(* Process start: the state after the first render and the mount effects *)

Mounted(st, day, t, perm) ==
    LET it == InitialTimer(st, day, t)
        dur == InitialDuration(st)
        auto == InitialAutoStart(st)
        started == it.timer /= Unmounted
        notif == started /\ perm = "granted"
    IN  [timer |-> it.timer,
         totalDurationMs |-> dur,
         autoStartEnabled |-> auto,
         notificationsEnabled |-> notif,
         activity |-> ActivityEffect(it.timer, dur, notif),
         tickInterval |-> TickEffect(it.timer, FALSE, FALSE),
         storage |-> IF started
                     THEN Persist([st EXCEPT !.zen_last_active_day = it.lastDay],
                                  it.timer, dur, auto)
                     ELSE st]

InitProgram ==
    /\ now = 1
    /\ today = 1
    /\ permission \in {"default", "granted"}
    /\ visible = TRUE
    /\ LET m == Mounted(EmptyStorage, 1, 1, permission)
       IN  /\ timer = m.timer
           /\ totalDurationMs = m.totalDurationMs
           /\ autoStartEnabled = m.autoStartEnabled
           /\ notificationsEnabled = m.notificationsEnabled
           /\ activity = m.activity
           /\ tickInterval = m.tickInterval
           /\ storage = m.storage
    /\ isMuted = FALSE
    /\ timeLeft = 0
    /\ tip = NoTip
    /\ wakeLockRef = "null"
    /\ wakePending = 0
    /\ wakeHeld = 0
    /\ sessionCompletions = 0
    /\ last = [op |-> "mount", from |-> IDLE, arg |-> Null, starts |-> 0,
               wakeReq |-> 0, startAlerts |-> 0, completions |-> 0,
               finishAlerts |-> 0, sounds |-> 0, order |-> << >>]

----------------------------------------------------------------------------
(* Handlers *)

wakeVars == <<wakeLockRef, wakePending, wakeHeld>>
envVars == <<permission, visible, now, today, wakeLockInNavigator>>
renderVars == <<timer, totalDurationMs, autoStartEnabled, isMuted,
                notificationsEnabled, storage, activity, tickInterval>>

\* Auto-start effect: setTimer(prev => ({...prev, status: LISTENING}))
AutoStartEffect ==
    /\ Busy
    /\ Render([timer EXCEPT !.status = LISTENING], totalDurationMs,
              autoStartEnabled, isMuted, notificationsEnabled,
              activity, tickInterval, storage)
    /\ last' = Did("autoStartEffect")
    /\ UNCHANGED <<timeLeft, wakeVars, envVars, sessionCompletions, tip>>

\* "Listen for Activity" button, shown while IDLE
Listen ==
    /\ ~Busy
    /\ timer.status = IDLE
    /\ Render([timer EXCEPT !.status = LISTENING], totalDurationMs,
              autoStartEnabled, isMuted, notificationsEnabled,
              activity, tickInterval, storage)
    /\ last' = Did("listen")
    /\ UNCHANGED <<timeLeft, wakeVars, envVars, sessionCompletions, tip>>

ResetTimerKeepsEnd(t) == [t EXCEPT !.startTime = Null, !.status = IDLE]
ResetTimerKeepsTimes(t) == [t EXCEPT !.status = IDLE]

\* The TimerState reset() sets
ResetTimer(t) == IdleShape

\* reset(), called with storage as the caller left it
reset(op, st0) ==
    /\ Render(ResetTimer(timer), totalDurationMs, autoStartEnabled, isMuted,
              notificationsEnabled, activity, tickInterval, st0)
    /\ timeLeft' = 0
    /\ releaseWakeLock
    /\ last' = [Did(op) EXCEPT !.order = ResetOrder]
    /\ UNCHANGED <<wakePending, envVars, sessionCompletions, tip>>

\* Cancel / Reset buttons, shown while LISTENING, RUNNING and FINISHED
Reset ==
    /\ ~Busy
    /\ timer.status \in {LISTENING, RUNNING, FINISHED}
    /\ reset("reset", storage)

DayChangedAlways(lastDate, todayStr) == lastDate /= NoItem

\* The day on which checkDayChange resets: the stored day differs from today
DayChanged(lastDate, todayStr) == lastDate /= NoItem /\ lastDate /= todayStr

DayNotMarked(st, todayStr) == st

\* localStorage.setItem('zen_last_active_day', today)
DayMarked(st, todayStr) == [st EXCEPT !.zen_last_active_day = todayStr]

\* checkDayChange, every minute
CheckDayChange ==
    /\ ~Busy
    /\ LET lastDate == storage.zen_last_active_day
           todayStr == toDateString(today)
       IN  IF DayChanged(lastDate, todayStr)
           THEN reset("dayReset", DayMarked(storage, todayStr))
           ELSE UNCHANGED vars

HandleActivityKeepsListeners(attached) == attached

\* What handleActivity leaves attached: it removes itself from all four classes
AfterHandleActivity(attached) == {}

\* A burst of events delivered before the next render: the number of
\* startTimer calls and the listeners left attached
RECURSIVE Deliver(_, _)
Deliver(events, attached) ==
    IF events = << >> THEN [starts |-> 0, attached |-> attached]
    ELSE IF Head(events) \in attached
    THEN LET rest == Deliver(Tail(events), AfterHandleActivity(attached))
         IN  [starts |-> rest.starts + 1, attached |-> rest.attached]
    ELSE Deliver(Tail(events), attached)

\* The TimerState startTimer sets
StartedTimer(t, dur) == [startTime |-> t, endTime |-> t + dur, status |-> RUNNING]

\* startTimer, a closure over `dur` and `notif`, called `starts` times in one
\* turn in which `events` events were delivered; act0: the listeners left
startTimer(op, dur, notif, events, starts, act0) ==
    /\ Render(StartedTimer(now, dur), totalDurationMs, autoStartEnabled,
              isMuted, notificationsEnabled, act0, tickInterval, storage)
    /\ requestWakeLock(starts)
    /\ sessionCompletions' = 0
    /\ last' = [Did(op) EXCEPT
                  !.arg = events,
                  !.starts = starts,
                  !.wakeReq = starts,
                  !.startAlerts = IF notif THEN starts ELSE 0,
                  !.order = StartOrder(starts, notif)]
    /\ UNCHANGED <<timeLeft, wakeLockRef, wakeHeld, envVars, tip>>

\* An event with no listener attached: nothing runs
Ignored ==
    /\ last' = Did("ignored")
    /\ UNCHANGED <<renderVars, timeLeft, wakeVars, envVars, sessionCompletions, tip>>

\* mousemove / keydown / mousedown / touchstart on window: a burst of n events,
\* the first of one class and the later ones of another (or the same)
Activity ==
    /\ ~Busy
    /\ IF activity.attached = {}
       THEN Ignored
       ELSE \E n \in 1..MaxBurst : \E first \in EventClasses : \E later \in EventClasses :
               LET events == [i \in 1..n |-> IF i = 1 THEN first ELSE later]
                   d == Deliver(events, activity.attached)
               IN  IF d.starts = 0
                   THEN Ignored
                   ELSE startTimer("activity", activity.totalDurationMs,
                                   activity.notificationsEnabled, n, d.starts,
                                   [activity EXCEPT !.attached = d.attached])

ExpiredStrictly(endTime, t) == endTime - t < 0

\* Whether the interval callback finishes the session
Expired(endTime, t) == endTime - t <= 0

\* The interval callback of the tick effect
Tick ==
    /\ ~Busy
    /\ tickInterval.active
    /\ IF Expired(tickInterval.endTime, now)
       THEN /\ timeLeft' = 0
            /\ Render([timer EXCEPT !.status = FINISHED], totalDurationMs,
                      autoStartEnabled, isMuted, notificationsEnabled,
                      activity, NoInterval, storage)
            \* handleCompletion, as the effect's render closed over it
            /\ releaseWakeLock
            /\ sessionCompletions' = sessionCompletions + 1
            /\ last' = [Did("tick") EXCEPT
                          !.completions = 1,
                          !.sounds = IF tickInterval.isMuted THEN 0 ELSE 1,
                          !.finishAlerts =
                              IF tickInterval.notificationsEnabled THEN 1 ELSE 0,
                          !.order =
                              CompletionOrder(tickInterval.isMuted,
                                              tickInterval.notificationsEnabled)]
            /\ UNCHANGED <<wakePending, envVars, tip>>
       ELSE /\ timeLeft' = tickInterval.endTime - now
            /\ last' = Did("tick")
            /\ UNCHANGED <<renderVars, wakeVars, envVars, sessionCompletions, tip>>

AcceptedNonZero(newMs) == newMs /= 0
AcceptedZero(newMs) == newMs >= 0

\* Whether saveDuration accepts the new duration
Accepted(newMs) == newMs > 0

\* "Save" in the settings dialog, with the two input fields' values
saveDuration(inputHours, inputMinutes) ==
    LET newMs == (inputHours * HourMs) + (inputMinutes * MinuteMs)
    IN  IF Accepted(newMs)
        THEN /\ Render(IF timer.status = RUNNING /\ Truthy(timer.startTime)
                       THEN [timer EXCEPT !.endTime = timer.startTime + newMs]
                       ELSE timer,
                       newMs, autoStartEnabled, isMuted, notificationsEnabled,
                       activity, tickInterval, storage)
             /\ last' = [Did("saveDuration") EXCEPT !.arg = newMs]
             /\ UNCHANGED <<timeLeft, wakeVars, envVars, sessionCompletions, tip>>
        ELSE /\ last' = [Did("saveDuration") EXCEPT !.arg = newMs]
             /\ UNCHANGED <<renderVars, timeLeft, wakeVars, envVars,
                            sessionCompletions, tip>>

SaveDuration ==
    /\ ~Busy
    /\ \E h \in InputHours : \E m \in InputMinutes : saveDuration(h, m)

\* Mute button, shown while RUNNING
ToggleMute ==
    /\ ~Busy
    /\ timer.status = RUNNING
    /\ Render(timer, totalDurationMs, autoStartEnabled, ~isMuted,
              notificationsEnabled, activity, tickInterval, storage)
    /\ UNCHANGED <<timeLeft, wakeVars, envVars, sessionCompletions, last, tip>>

\* Auto-start button
ToggleAutoStart ==
    /\ ~Busy
    /\ Render(timer, totalDurationMs, ~autoStartEnabled, isMuted,
              notificationsEnabled, activity, tickInterval, storage)
    /\ UNCHANGED <<timeLeft, wakeVars, envVars, sessionCompletions, last, tip>>

\* requestNotificationPermission: the user grants, or dismisses the prompt (the
\* program only compares the answer with "granted")
RequestPermission ==
    /\ ~Busy
    /\ \E answer \in {"granted", "default"} :
          /\ permission' = IF permission = "default" THEN answer ELSE permission
          /\ Render(timer, totalDurationMs, autoStartEnabled, isMuted,
                    permission' = "granted", activity, tickInterval, storage)
    /\ UNCHANGED <<timeLeft, wakeVars, visible, now, today, wakeLockInNavigator,
                   sessionCompletions, last, tip>>

----------------------------------------------------------------------------
(* Wake lock: the platform side and the visibility handler *)

\* navigator.wakeLock.request settles: a sentinel, or a rejection
WakeResolve ==
    /\ ~Busy
    /\ wakePending > 0
    /\ wakePending' = wakePending - 1
    /\ \/ /\ visible
          /\ wakeHeld < MaxHeld
          /\ wakeHeld' = wakeHeld + 1
          /\ wakeLockRef' = "held"
       \/ UNCHANGED <<wakeLockRef, wakeHeld>>
    /\ UNCHANGED <<renderVars, timeLeft, envVars, sessionCompletions, last, tip>>

\* The window is hidden: the platform releases every sentinel
Hide ==
    /\ ~Busy
    /\ visible
    /\ visible' = FALSE
    /\ wakeHeld' = 0
    /\ wakeLockRef' = IF wakeLockRef = "held" THEN "released" ELSE wakeLockRef
    /\ UNCHANGED <<renderVars, timeLeft, wakePending, permission, now, today,
                   wakeLockInNavigator, sessionCompletions, last, tip>>

\* handleVisibilityChange when the window is shown again
Show ==
    /\ ~Busy
    /\ ~visible
    /\ visible' = TRUE
    /\ IF wakeLockRef /= "null"
       THEN requestWakeLock(1)
       ELSE UNCHANGED wakePending
    /\ UNCHANGED <<renderVars, timeLeft, wakeLockRef, wakeHeld, permission, now,
                   today, wakeLockInNavigator, sessionCompletions, last, tip>>

----------------------------------------------------------------------------
(* Environment *)

Advance ==
    /\ ~Busy
    /\ now < 1 + MaxClock * MinuteMs
    /\ now' = now + MinuteMs
    /\ UNCHANGED <<renderVars, timeLeft, wakeVars, permission, visible, today,
                   wakeLockInNavigator, sessionCompletions, last, tip>>

NextDay ==
    /\ ~Busy
    /\ today < MaxDay
    /\ today' = today + 1
    /\ UNCHANGED <<renderVars, timeLeft, wakeVars, permission, visible, now,
                   wakeLockInNavigator, sessionCompletions, last, tip>>

\* The process is closed and started again: only localStorage survives
Restart ==
    /\ ~Busy
    /\ LET m == Mounted(storage, today, now, permission)
       IN  /\ timer' = m.timer
           /\ totalDurationMs' = m.totalDurationMs
           /\ autoStartEnabled' = m.autoStartEnabled
           /\ notificationsEnabled' = m.notificationsEnabled
           /\ activity' = m.activity
           /\ tickInterval' = m.tickInterval
           /\ storage' = m.storage
    /\ isMuted' = FALSE
    /\ timeLeft' = 0
    /\ wakeLockRef' = "null"
    /\ wakePending' = 0
    /\ wakeHeld' = 0
    /\ visible' = TRUE
    /\ last' = Did("mount")
    /\ tip' = NoTip
    /\ UNCHANGED <<permission, now, today, wakeLockInNavigator, sessionCompletions>>

Init == InitProgram /\ wakeLockInNavigator \in BOOLEAN

Next ==
    \/ AutoStartEffect
    \/ Listen
    \/ Reset
    \/ CheckDayChange
    \/ Activity
    \/ Tick
    \/ SaveDuration
    \/ ToggleMute
    \/ ToggleAutoStart
    \/ RequestPermission
    \/ WakeResolve
    \/ Hide
    \/ Show
    \/ Advance
    \/ NextDay
    \/ Restart

Spec == Init /\ [][Next]_vars

\* The timer on a platform without the Wake Lock API.  The wake-lock variables
\* are written by the wake-lock operations only and no timer handler reads
\* them, so the TimerState behaviours are those of Spec.
InitTimer == InitProgram /\ wakeLockInNavigator = FALSE

NextTimer ==
    \/ AutoStartEffect
    \/ Listen
    \/ Reset
    \/ CheckDayChange
    \/ Activity
    \/ Tick
    \/ SaveDuration
    \/ ToggleMute
    \/ ToggleAutoStart
    \/ RequestPermission
    \/ Advance
    \/ NextDay
    \/ Restart

SpecTimer == InitTimer /\ [][NextTimer]_vars

\* startTimer invoked directly, whatever the status: the function has no
\* caller but handleActivity, and this specification adds one
CallStartTimer ==
    /\ ~Busy
    /\ startTimer("startTimer", totalDurationMs, notificationsEnabled, 0, 1,
                  activity)

SpecStart == InitTimer /\ [][NextTimer \/ CallStartTimer]_vars

\* The wake lock on a platform with the Wake Lock API: the handlers that
\* request or release it, the platform's answers and the visibility handler.
\* The settings handlers left out touch no wake-lock variable; saveDuration
\* is kept because only a shortened session completes within the clock's range.
InitWake == InitProgram /\ wakeLockInNavigator = TRUE

NextWake ==
    \/ AutoStartEffect
    \/ Reset
    \/ CheckDayChange
    \/ Activity
    \/ Tick
    \/ SaveDuration
    \/ WakeResolve
    \/ Hide
    \/ Show
    \/ Advance
    \/ NextDay
    \/ Restart

SpecWake == InitWake /\ [][NextWake]_vars

\* A session left to run: no reset button, no day change, no restart, and the
\* duration is only changed before the session starts.  The interval fires
\* every second, a queued state update is processed and a wake-lock request
\* settles, hence the weak fairness of Tick, AutoStartEffect and WakeResolve.
SaveDurationBeforeStart == timer.status /= RUNNING /\ SaveDuration

NextSession ==
    \/ AutoStartEffect
    \/ Activity
    \/ Tick
    \/ SaveDurationBeforeStart
    \/ WakeResolve
    \/ Hide
    \/ Show
    \/ Advance

SpecSession ==
    /\ InitWake
    /\ [][NextSession]_vars
    /\ WF_vars(Tick)
    /\ WF_vars(AutoStartEffect)
    /\ WF_vars(WakeResolve)

\* getWorkdayTip applied: fetchInitialTip awaits it and calls setTip
FetchTip ==
    \E version \in {1, 2} : \E remainingHours \in 0..MaxHours :
    \E API_KEY \in EnvValues : \E GEMINI_API_KEY \in EnvValues :
    \E outcome \in Outcomes :
        /\ tip' = [version |-> version, remainingHours |-> remainingHours,
                   API_KEY |-> API_KEY, GEMINI_API_KEY |-> GEMINI_API_KEY,
                   outcome |-> outcome,
                   result |->
                      IF version = 1
                      THEN getWorkdayTipFirst(remainingHours, API_KEY, outcome)
                      ELSE getWorkdayTip(remainingHours, API_KEY,
                                         GEMINI_API_KEY, outcome)]
        /\ UNCHANGED <<renderVars, timeLeft, wakeVars, envVars,
                       sessionCompletions, last>>

\* getWorkdayTip on every environment, argument and outcome of the lookup
SpecTip == InitTimer /\ [][FetchTip]_vars

\* localStorage written from outside the program (another tab, the developer
\* tools, an interrupted write): zen_timer_state is no longer JSON
CorruptStorage ==
    /\ ~Busy
    /\ storage' = [storage EXCEPT !.zen_timer_state = Garbage]
    /\ UNCHANGED <<timer, totalDurationMs, autoStartEnabled, isMuted,
                   notificationsEnabled, activity, tickInterval, timeLeft,
                   wakeVars, envVars, sessionCompletions, last, tip>>

\* The timer with such writes.  Once the initialiser has thrown nothing of
\* the program runs; the process can only be started again.
NextCorrupt ==
    \/ timer /= Unmounted /\ (NextTimer \/ CorruptStorage)
    \/ timer = Unmounted /\ (Restart \/ Advance \/ NextDay)

SpecCorrupt == InitTimer /\ [][NextCorrupt]_vars

----------------------------------------------------------------------------
(* Properties *)

ResetOps == {"reset", "dayReset"}

\* C1: reset(), from whatever TimerState it is invoked (by the Cancel/Reset
\* buttons or by the day check), yields exactly {null, null, IDLE}; a reset
\* invoked on the result of a reset therefore yields the same TimerState.
C1_ResetYieldsIdle == last.op \in ResetOps => timer = IdleShape

C1_Witness ==
    /\ last.op \in ResetOps
    /\ last.from = RUNNING
    /\ timer = IdleShape

\* C2: in every reachable state, status = RUNNING implies startTime and
\* endTime are not null and endTime >= startTime.
C2_RunningHasTimes ==
    timer.status = RUNNING =>
        /\ timer.startTime /= Null
        /\ timer.endTime /= Null
        /\ timer.endTime >= timer.startTime

C2_Witness ==
    /\ timer.status = RUNNING
    /\ last.op = "saveDuration"
    /\ last.arg > 0
    /\ timer.endTime > timer.startTime

\* C3: in every reachable state, status = IDLE or LISTENING implies
\* startTime = null and endTime = null.
C3_IdleListeningNull ==
    timer.status \in {IDLE, LISTENING} =>
        timer.startTime = Null /\ timer.endTime = Null

C3_Witness ==
    /\ timer.status = LISTENING
    /\ last.op = "autoStartEffect"
    /\ sessionCompletions = 1

\* C4: whenever status = RUNNING, endTime - startTime = totalDurationMs: at
\* the start of a session, also when the duration was changed while
\* LISTENING, and after a reconfiguration while RUNNING.
C4_RunningSpansDuration ==
    timer.status = RUNNING => timer.endTime - timer.startTime = totalDurationMs

C4_Witness ==
    /\ timer.status = RUNNING
    /\ last.op = "activity"
    /\ totalDurationMs /= DEFAULT_DURATION_MS
    /\ timer.endTime - timer.startTime = totalDurationMs

\* C5: saveDuration with a duration <= 0, in any status, leaves the
\* TimerState, totalDurationMs and the stored duration and timer unchanged.
C5_NonPositiveRejected ==
    [][(SaveDuration /\ last'.op = "saveDuration" /\ last'.arg <= 0) =>
          /\ timer' = timer
          /\ totalDurationMs' = totalDurationMs
          /\ storage' = storage]_vars

C5_Witness ==
    /\ last.op = "saveDuration"
    /\ last.arg < 0
    /\ timer.status = RUNNING

\* C6: however many activity events are delivered in one turn, a turn that
\* starts a session began in LISTENING and called startTimer exactly once
\* (one wake-lock request, at most one start alert); events delivered in any
\* other status are ignored, and none delivered while LISTENING is.
C6_ExactlyOneStart ==
    /\ last.op = "activity" =>
          /\ last.from = LISTENING
          /\ last.starts = 1
          /\ last.wakeReq = 1
          /\ last.startAlerts <= 1
    /\ last.op = "ignored" => last.from /= LISTENING

C6_Witness ==
    /\ last.op = "activity"
    /\ last.arg >= 2
    /\ last.starts = 1
    /\ last.startAlerts = 1
    /\ timer.status = RUNNING

\* C7: startTimer invoked when status is not LISTENING is a no-op: the status
\* is unchanged, no wake lock is requested and no start alert is shown.
C7_StartGuarded ==
    (last.op = "startTimer" /\ last.from /= LISTENING) =>
        /\ timer.status = last.from
        /\ last.wakeReq = 0
        /\ last.startAlerts = 0

\* C8: when checkDayChange finds the stored day different from today, then
\* from any status the TimerState becomes {null, null, IDLE} and the stored
\* day becomes today.
C8_DayRolloverResets ==
    [][(CheckDayChange /\ storage.zen_last_active_day /= toDateString(today)) =>
          /\ timer' = IdleShape
          /\ storage'.zen_last_active_day = toDateString(today)]_vars

C8_Witness ==
    /\ last.op = "dayReset"
    /\ last.from = RUNNING
    /\ timer = IdleShape
    /\ storage.zen_last_active_day = toDateString(today)
    /\ totalDurationMs = DEFAULT_DURATION_MS

\* C9: at process start, if the stored day differs from today, the first
\* TimerState is {null, null, IDLE} whatever timer state was stored, and the
\* stored day is today.
C9_StartOnNewDayIsIdle ==
    [][(Restart /\ storage.zen_last_active_day /= toDateString(today)) =>
          /\ timer' = IdleShape
          /\ storage'.zen_last_active_day = toDateString(today)]_vars

C9_Witness ==
    /\ last.op = "mount"
    /\ last.from = RUNNING
    /\ timer = IdleShape
    /\ storage.zen_last_active_day = toDateString(today)

\* C10: handleCompletion runs at most once for each session, and once it has
\* run no tick interval is left active to run it again.
C10_CompletionOnce ==
    /\ sessionCompletions <= 1
    /\ last.completions = 1 => last.from = RUNNING
    /\ sessionCompletions = 1 => ~tickInterval.active /\ timer.status /= RUNNING

C10_Witness ==
    /\ sessionCompletions = 1
    /\ timer.status = FINISHED
    /\ Truthy(timer.endTime)
    /\ now > timer.endTime

\* C11: a wake-lock sentinel is held only while RUNNING: in every other
\* status none is held, whatever the order in which the pending requests
\* settle relative to reset and completion.
C11_HeldOnlyWhileRunning == timer.status /= RUNNING => wakeHeld = 0

\* C12: at most one sentinel is acquired and not yet released.
C12_AtMostOneHeld == wakeHeld <= 1

\* C13: when a tick finishes the session, the "WorkDay Complete!" alert is
\* shown once if notifications are enabled at that moment and not at all
\* otherwise, also when they were enabled while RUNNING and when the RUNNING
\* session was restored at process start.
C13_FinishAlertIffEnabled ==
    [][(Tick /\ last'.completions = 1) =>
          last'.finishAlerts = IF notificationsEnabled THEN 1 ELSE 0]_vars

\* C14: when a tick finishes the session, the completion sound is played if
\* and only if isMuted is false at that moment, whatever mute toggles were
\* made while RUNNING.
C14_SoundIffNotMuted ==
    [][(Tick /\ last'.completions = 1) =>
          last'.sounds = IF isMuted THEN 0 ELSE 1]_vars

\* C15: in every turn that starts, finishes or resets a session, the write
\* of the new TimerState to zen_timer_state comes before every wake-lock
\* request or release and every notification the turn dispatches.
Dispatches == {"wakeLock.request", "sentinel.release", "Notification"}

C15_PersistBeforeDispatch ==
    \A i, j \in DOMAIN last.order :
        (last.order[i] = "setItem" /\ last.order[j] \in Dispatches) => i < j

\* C16: at process start a stored zen_timer_state that does not parse gives
\* the TimerState {null, null, IDLE}, and the start completes.
C16_UnparseableBecomesIdle ==
    [][(Restart /\ ~Parses(storage.zen_timer_state)) => timer' = IdleShape]_vars

\* C17: at process start on the stored day, a stored RUNNING session whose
\* endTime has passed (Date.now() > endTime) starts as FINISHED, and one
\* whose endTime has not passed does not start as FINISHED.
C17_ExpiredStartsFinished ==
    [][(/\ Restart
        /\ storage.zen_last_active_day = toDateString(today)
        /\ JSONparse(storage.zen_timer_state).status = RUNNING) =>
          IF now > JSONparse(storage.zen_timer_state).endTime
          THEN timer'.status = FINISHED
          ELSE timer'.status /= FINISHED]_vars

C17_Witness ==
    /\ last.op = "mount"
    /\ last.from = RUNNING
    /\ timer = FinishedShape
    /\ storage.zen_timer_state = JSONstringify(FinishedShape)
    /\ storage.zen_last_active_day = toDateString(today)

\* C18: getWorkdayTip always returns a tip, and whenever the lookup fails
\* (rejected request, response text that is not JSON, no credential) it
\* returns the "Stay Focused" fallback.
LookupFailed(call) ==
    \/ call.outcome /= "ok"
    \/ IF call.version = 1 THEN call.API_KEY = ""
       ELSE call.API_KEY = "" /\ call.GEMINI_API_KEY = ""

C18_SameFallback ==
    (tip.version /= 0 /\ LookupFailed(tip)) => tip.result = StayFocused

\* C19: whenever autoStartEnabled is true and the status is IDLE, the
\* auto-start effect's update is ready and the next step is the one that makes
\* the status LISTENING, with no handler in between; while autoStartEnabled
\* is false the status leaves IDLE only by the "Listen for Activity" button.
C19_AutoStartListens ==
    /\ []((autoStartEnabled /\ timer.status = IDLE) => ENABLED AutoStartEffect)
    /\ [][(autoStartEnabled /\ timer.status = IDLE) =>
             timer'.status = LISTENING /\ last'.op = "autoStartEffect"]_vars
    /\ [][(~autoStartEnabled /\ timer.status = IDLE /\ timer'.status /= IDLE) =>
             timer'.status = LISTENING /\ last'.op = "listen"]_vars

C19_Witness ==
    /\ last.op = "autoStartEffect"
    /\ timer.status = LISTENING
    /\ autoStartEnabled
    /\ today > 1
    /\ storage.zen_last_active_day = toDateString(today)

\* C20: right after a session has started, the remaining time shown is
\* max(0, endTime - now) and the progress is clamp01(1 - remaining / total),
\* which is 0.
Remaining == Max(0, timer.endTime - now)

C20_ProgressAfterStart ==
    [][(Activity /\ timer'.status = RUNNING) =>
          /\ timeLeft' = Remaining'
          /\ progress' = Clamped(Remaining', totalDurationMs')
          /\ progress' = 0]_vars

\* C21: a RUNNING session whose endTime the clock has passed leads, with
\* ticks firing and no reset, day change or reconfiguration, to FINISHED with
\* no wake-lock sentinel held.
C21_FinishesAndReleases ==
    (timer.status = RUNNING /\ now > timer.endTime)
        ~> (timer.status = FINISHED /\ wakeHeld = 0)

\* C22: when the window becomes visible again while the status is RUNNING
\* and no sentinel is held or being requested, whether the platform released
\* it or the earlier request failed, a wake lock is requested.
C22_ReacquiresWhenVisible ==
    [][(Show /\ timer.status = RUNNING /\ wakeHeld = 0 /\ wakePending = 0) =>
          wakePending' = 1]_vars

C24_ReconfigureOnlyIdleRunning ==
    [][(SaveDuration /\ timer.status \in {LISTENING, FINISHED}) =>
          totalDurationMs' = totalDurationMs /\ timer' = timer]_vars

\* C25: between turns the stored zen_timer_state decodes to the TimerState in
\* memory and the stored zen_total_duration to totalDurationMs, after every
\* change: start, finish, reset, reconfigure while RUNNING, IDLE ->
\* LISTENING and process start.
C25_WriteThrough ==
    /\ storage.zen_timer_state /= NoItem
    /\ JSONparse(storage.zen_timer_state) = timer
    /\ storage.zen_total_duration /= NoItem
    /\ parseInt(storage.zen_total_duration) = totalDurationMs

C25_Witness ==
    /\ last.op = "saveDuration"
    /\ last.from = RUNNING
    /\ last.arg = 2 * MinuteMs
    /\ timer.endTime = timer.startTime + 2 * MinuteMs
    /\ JSONparse(storage.zen_timer_state) = timer
    /\ parseInt(storage.zen_total_duration) = 2 * MinuteMs

\* C26: a turn that starts a session from LISTENING shows the "WorkDay Zen
\* Started" alert once if notifications are enabled at that moment (also
\* when they were enabled while LISTENING) and not at all otherwise; no other
\* turn shows it.
C26_StartAlertIffEnabled ==
    /\ [][(Activity /\ timer.status = LISTENING) =>
             /\ timer'.status = RUNNING
             /\ last'.startAlerts = IF notificationsEnabled THEN 1 ELSE 0]_vars
    /\ [](last.startAlerts > 0 => last.op = "activity" /\ last.from = LISTENING)

C26_Witness ==
    /\ last.op = "activity"
    /\ last.from = LISTENING
    /\ last.arg = 1
    /\ last.startAlerts = 1
    /\ notificationsEnabled
    /\ timer.status = RUNNING
    /\ timer.startTime > 1

\* C27: a wake lock is requested whenever the status becomes RUNNING, on the
\* start from LISTENING and when a RUNNING session is restored at process
\* start, and a turn that changes the status to something else requests none.
C27_RequestOnEveryRunning ==
    /\ [][(Activity /\ timer.status = LISTENING /\ timer'.status = RUNNING) =>
             wakePending' = wakePending + 1]_vars
    /\ [][(Restart /\ timer'.status = RUNNING) => wakePending' >= 1]_vars
    /\ [][(timer'.status /= timer.status /\ timer'.status /= RUNNING) =>
             wakePending' <= wakePending]_vars

\* C28: a day check resets only when the stored day is not today and then
\* stores today, and the stored day never changes to anything but today; so
\* after the reset of a calendar day every later check on that day leaves
\* the TimerState unchanged, also that of a session started after the reset.
C28_OneResetPerDay ==
    /\ [][(CheckDayChange /\ last'.op = "dayReset") =>
             /\ storage.zen_last_active_day /= toDateString(today)
             /\ storage'.zen_last_active_day = toDateString(today)]_vars
    /\ [][storage'.zen_last_active_day /= storage.zen_last_active_day =>
             storage'.zen_last_active_day = toDateString(today)]_vars
    /\ [][(CheckDayChange /\ storage.zen_last_active_day = toDateString(today)) =>
             timer' = timer]_vars

C28_Witness ==
    /\ last.op = "activity"
    /\ timer.status = RUNNING
    /\ today > 1
    /\ storage.zen_last_active_day = toDateString(today)
    /\ timer.startTime > 1

\* C29: a process closed while RUNNING and started again on the same day,
\* endTime not yet passed, has the same TimerState and totalDurationMs as
\* before, and a tick interval for the same endTime.
C29_RestartRoundTrip ==
    [][(/\ Restart
        /\ timer.status = RUNNING
        /\ storage.zen_last_active_day = toDateString(today)
        /\ now <= timer.endTime) =>
          /\ timer' = timer
          /\ totalDurationMs' = totalDurationMs
          /\ tickInterval'.active
          /\ tickInterval'.endTime = timer.endTime]_vars

C29_Witness ==
    /\ last.op = "mount"
    /\ last.from = RUNNING
    /\ timer.status = RUNNING
    /\ totalDurationMs = 2 * MinuteMs
    /\ timer.endTime = timer.startTime + totalDurationMs
    /\ now < timer.endTime
    /\ tickInterval.active

\* C30: saveDuration while RUNNING with a positive duration not greater than
\* the time elapsed keeps the status RUNNING with endTime = startTime + newMs
\* and an interval for it; the next tick makes the status FINISHED and runs
\* handleCompletion, once for the session.
C30_ReconfiguredPastEnd ==
    /\ [][(/\ SaveDuration
           /\ timer.status = RUNNING
           /\ last'.arg > 0
           /\ timer.startTime + last'.arg <= now) =>
             /\ timer'.status = RUNNING
             /\ timer'.startTime = timer.startTime
             /\ timer'.endTime = timer.startTime + last'.arg
             /\ tickInterval'.active
             /\ tickInterval'.endTime = timer'.endTime
             /\ last'.completions = 0]_vars
    /\ [][(Tick /\ timer.status = RUNNING /\ timer.endTime <= now) =>
             /\ timer'.status = FINISHED
             /\ last'.completions = 1
             /\ sessionCompletions' = 1
             /\ ~tickInterval'.active]_vars

C30_Witness ==
    /\ last.op = "saveDuration"
    /\ last.from = RUNNING
    /\ last.arg = MinuteMs
    /\ timer.status = RUNNING
    /\ timer.endTime = timer.startTime + MinuteMs
    /\ timer.endTime < now
    /\ tickInterval.active
    /\ tickInterval.endTime = timer.endTime

====
